---- MODULE Spec2Model ----
(***************************************************************************)
(* Model of the fedora-review Java guidelines plugin                       *)
(* (src/fedora-review/java_guidelines.py).                                 *)
(*                                                                         *)
(* Strings are sequences of tokens: a token is either a single character   *)
(* that the plugin's patterns tell apart ("#", " ", newline) or a word     *)
(* that the patterns treat as a literal ("mvn-rpmbuild", "%mvn_build").    *)
(* Regular expressions are data (a sequence of alternatives, each a        *)
(* sequence of elements) interpreted by Search, the way re.search does.    *)
(***************************************************************************)
EXTENDS Integers, Sequences, FiniteSets, TLC

VARIABLES
    lines,          \* spec.lines: the spec text, a sequence of lines
    build_requires, \* spec.build_requires: a sequence of strings
    requires,       \* spec.get_requires(pkg): package name -> sequence of strings
    packages,       \* spec.packages: the declared (sub)package names, main first
    files,          \* rpms: package name -> set of installed paths
    scriptlets,     \* rpms.get(pkg).post / .postun: package name -> record
    arch,           \* spec.expand_tag('arch', pkg): package name -> string
    build_section,  \* spec.get_section('%build', raw=True)
    section,        \* the section handed to _search_previous_line
    queue,          \* the checks the host has still to run, in order
    verdict,        \* check -> the verdict recorded by set_passed, or UNSET
    extra,          \* check -> the explanatory text recorded with the verdict
    calls,          \* check -> number of set_passed calls made so far
    ret             \* value returned by _search_previous_line, or NOTRUN

vars == <<lines, build_requires, requires, packages, files, scriptlets, arch,
          build_section, section, queue, verdict, extra, calls, ret>>

inputs == <<lines, build_requires, requires, packages, files, scriptlets, arch,
            build_section, section>>

----------------------------------------------------------------------------
(* Bounds of the model *)

MaxSpecLines == 2
MaxReqs == 2
MaxSection == 3
MaxSubpackages == 2

----------------------------------------------------------------------------
(* Verdicts *)

PASS == "pass"
FAIL == "fail"
PENDING == "pending"
NA == "not_applicable"
UNSET == "unset"
NoText == "none"

\* set_passed(True) records PASS and set_passed(False) records FAIL
BoolVerdict(b) == IF b THEN PASS ELSE FAIL

Call(result, text) == [result |-> result, text |-> text]

----------------------------------------------------------------------------
(* Strings and regular expressions *)

NL == "\n"
Whitespace == {" ", NL}

Alphabet ==
    {"#", " ", NL, "x", "install", "reason",
     "mvn-rpmbuild", "-Dmaven.test.skip", "mvn-build",
     "-f", "--force", "--skip-tests",
     "%mvn_build", "%mvn_install", "%add_maven_depmap", "%add_to_maven_depmap",
     "%update_maven_depmap", "%{_datadir}/maven2/poms"}

One(cls) == [t |-> "one", cls |-> cls]
Star(cls) == [t |-> "star", cls |-> cls]
Bol == [t |-> "bol", cls |-> {}]
Eol == [t |-> "eol", cls |-> {}]
Lit(tok) == One({tok})
NotHash == Alphabet \ {"#"}
Dot == Alphabet \ {NL}

\* Do the elements k.. of alternative rx match s from offset p on?
RECURSIVE MatchFrom(_, _, _, _)
MatchFrom(rx, k, s, p) ==
    IF k > Len(rx) THEN TRUE
    ELSE LET e == rx[k] IN
         CASE e.t = "one" ->
                /\ p < Len(s)
                /\ s[p + 1] \in e.cls
                /\ MatchFrom(rx, k + 1, s, p + 1)
           [] e.t = "star" ->
                \/ MatchFrom(rx, k + 1, s, p)
                \/ /\ p < Len(s)
                   /\ s[p + 1] \in e.cls
                   /\ MatchFrom(rx, k, s, p + 1)
           [] e.t = "bol" ->
                p = 0 /\ MatchFrom(rx, k + 1, s, p)
           [] e.t = "eol" ->
                /\ \/ p = Len(s)
                   \/ p = Len(s) - 1 /\ s[Len(s)] = NL
                /\ MatchFrom(rx, k + 1, s, p)

\* regex.search(s): a match of some alternative starting at some offset
Search(re, s) ==
    \E a \in 1..Len(re) : \E p \in 0..Len(s) : MatchFrom(re[a], 1, s, p)

\* x in s, for a literal x and a string s
Contains(s, tok) == \E i \in 1..Len(s) : s[i] = tok

\* s.endswith(tok)
EndsWith(s, tok) == Len(s) > 0 /\ s[Len(s)] = tok

\* s.strip()
RECURSIVE LStrip(_)
LStrip(s) ==
    IF s # <<>> /\ Head(s) \in Whitespace THEN LStrip(Tail(s)) ELSE s

RECURSIVE RStrip(_)
RStrip(s) ==
    IF s # <<>> /\ s[Len(s)] \in Whitespace
    THEN RStrip(SubSeq(s, 1, Len(s) - 1))
    ELSE s

Strip(s) == LStrip(RStrip(s))

\* Sequences over S of length at most n
SeqUpTo(S, n) == UNION {[1..k -> S] : k \in 0..n}

----------------------------------------------------------------------------
(* The patterns of the plugin *)

empty_regex == << <<Bol, Star(Whitespace), Eol>> >>
xmvn_regex == << <<Star(NotHash), Lit("%mvn_build")>>,
                 <<Star(NotHash), Lit("%mvn_install")>> >>
mvn_rpmbuild == << <<Star(NotHash), Lit("mvn-rpmbuild")>> >>
add_maven_depmap_regex == << <<Star(NotHash), Lit("%add_maven_depmap")>> >>

old_depmap_regex ==
    << <<Bol, Star(Whitespace), Lit("%add_to_maven_depmap"),
         One(Whitespace), Star(Whitespace), Star(Dot)>> >>
update_depmap_regex ==
    << <<Bol, Star(Whitespace), Lit("%update_maven_depmap"),
         One(Whitespace), Star(Whitespace), Star(Dot)>> >>
mavenpomdir_regex == << <<Lit("%{_datadir}/maven2/poms")>> >>
skip_regex ==
    << <<One(Whitespace), Star(Whitespace), Lit("-Dmaven.test.skip"),
         Star(Dot)>> >>
XmvnSkipAlt(flag) ==
    <<Lit("mvn-build"), One(Whitespace), Star(Whitespace), Star(Dot),
      Lit(flag), Star(Dot)>>
xmvn_skip_regex ==
    <<XmvnSkipAlt("-f"), XmvnSkipAlt("--force"), XmvnSkipAlt("--skip-tests")>>

JAVAPACKAGES_BR ==
    <<"javapackages-tools", "jpackage-utils", "javapackages-local",
      "gradle-local">>
JAVAPACKAGES_R == <<"javapackages-tools", "jpackage-utils">>

\* the patterns of the docstring's example
TriggerEx == << <<Lit("-Dmaven.test.skip")>> >>
PivotEx == << <<Lit("mvn-rpmbuild")>> >>
JudgeEx == << <<Bol, Lit("#")>> >>

----------------------------------------------------------------------------
(* The checks *)

JavaCheckBase == "JavaCheckBase"
CheckNotJavaApplicable == "CheckNotJavaApplicable"
CheckJavadoc == "CheckJavadoc"
CheckJavadocdirName == "CheckJavadocdirName"
CheckJPackageRequires == "CheckJPackageRequires"
CheckJavadocJPackageRequires == "CheckJavadocJPackageRequires"
CheckNoOldMavenDepmap == "CheckNoOldMavenDepmap"
CheckAddMavenDepmap == "CheckAddMavenDepmap"
CheckUseMavenpomdirMacro == "CheckUseMavenpomdirMacro"
CheckUpdateDepmap == "CheckUpdateDepmap"
CheckNoRequiresPost == "CheckNoRequiresPost"
CheckTestSkip == "CheckTestSkip"
CheckMvnRpmbuild == "CheckMvnRpmbuild"
CheckBundledJars == "CheckBundledJars"
JarFilename == "JarFilename"
CheckPomInstalled == "CheckPomInstalled"
CheckUpstremBuildMethod == "CheckUpstremBuildMethod"
CheckNoArch == "CheckNoArch"
CheckNewStyleMaven == "CheckNewStyleMaven"

\* the checks in the order the module defines them
PluginChecks ==
    <<CheckNotJavaApplicable, CheckJavadoc, CheckJavadocdirName,
      CheckJPackageRequires, CheckJavadocJPackageRequires,
      CheckNoOldMavenDepmap, CheckAddMavenDepmap, CheckUseMavenpomdirMacro,
      CheckUpdateDepmap, CheckNoRequiresPost, CheckTestSkip, CheckMvnRpmbuild,
      CheckBundledJars, JarFilename, CheckPomInstalled,
      CheckUpstremBuildMethod, CheckNoArch, CheckNewStyleMaven>>

\* the checks whose constructor sets self.automatic = False
ManualChecks ==
    {CheckBundledJars, JarFilename, CheckPomInstalled, CheckUpstremBuildMethod}

\* the checks that define run or run_on_applicable
AutomaticChecks ==
    {PluginChecks[i] : i \in 1..Len(PluginChecks)}
        \ (ManualChecks \cup {CheckNotJavaApplicable})

AllChecks == {PluginChecks[i] : i \in 1..Len(PluginChecks)} \cup {JavaCheckBase}

----------------------------------------------------------------------------
(* JavaCheckBase._search_previous_line *)

True == "True"
False == "False"
None == "None"
NOTRUN == "notrun"

\* The loop over reversed(section), from line i down to the first line
RECURSIVE SearchLoop(_, _, _, _, _, _, _)
SearchLoop(sec, i, found_trigger, found_pivot, trigger, pivot, judge) ==
    IF i = 0 THEN [ret |-> None, calls |-> <<>>]
    ELSE LET line == sec[i]
             ft == found_trigger \/ Search(trigger, line)
         IN  IF ft /\ Search(pivot, line)
             THEN SearchLoop(sec, i - 1, ft, TRUE, trigger, pivot, judge)
             ELSE IF found_pivot /\ ~Search(empty_regex, line)
             THEN IF Search(judge, line)
                  THEN [ret |-> True, calls |-> <<>>]
                  ELSE [ret |-> False, calls |-> <<Call(FAIL, NoText)>>]
             ELSE SearchLoop(sec, i - 1, ft, found_pivot, trigger, pivot, judge)

search_previous_line(sec, trigger, pivot, judge) ==
    SearchLoop(sec, Len(sec), FALSE, FALSE, trigger, pivot, judge)

----------------------------------------------------------------------------
(* The host's views, as the plugin calls them *)

\* spec.find_re(regex): the first line of the spec that the regex finds
\* something in, stripped, as a one-element sequence; <<>> stands for None
RECURSIVE FindReFrom(_, _)
FindReFrom(re, i) ==
    IF i > Len(lines) THEN <<>>
    ELSE IF Search(re, lines[i]) THEN <<Strip(lines[i])>>
    ELSE FindReFrom(re, i + 1)

find_re(re) == FindReFrom(re, 1)

\* the truth value of what find_re returns: None and "" are false
Truthy(r) == r # <<>> /\ r[1] # <<>>

PathAlphabet ==
    {"/usr/share/javadoc/", "/usr/share/maven-poms/", "/", "-", "foo", "1",
     "index", ".html", ".pom", "package-list"}

\* fnmatch: the whole path matches the glob, "*" standing for any run
GlobRegex(glob) ==
    [i \in 1..Len(glob) |->
        IF glob[i] = "*" THEN Star(PathAlphabet) ELSE Lit(glob[i])] \o <<Eol>>

fnmatch(path, glob) == MatchFrom(GlobRegex(glob), 1, path, 0)

\* rpms.find_all(glob, pkg): the files of pkg matching glob
find_all(glob, pkg) == {f \in files[pkg] : fnmatch(f, glob)}

\* rpms.find(glob, pkg): is there a file of pkg matching glob
find_in(glob, pkg) == find_all(glob, pkg) # {}

\* rpms.find(glob): is there a file of any built package matching glob
find(glob) == \E i \in 1..Len(packages) : find_in(glob, packages[i])

\* spec.get_requires(): the requires of the main package
get_requires == requires[packages[1]]

spec_name == <<"foo">>
spec_version == <<"1">>

HtmlGlob == <<"*", ".html">>
PomGlob == <<"*", ".pom">>
name_ver_pattern ==
    <<"/usr/share/javadoc/">> \o spec_name \o <<"-">> \o spec_version
        \o <<"/", "*">>
name_pattern == <<"/usr/share/javadoc/">> \o spec_name \o <<"/", "*">>

----------------------------------------------------------------------------
(* JavaCheckBase: shared predicates *)

is_maven_pkg ==
    \E i \in 1..Len(build_requires) : Contains(build_requires[i], "maven-local")

is_xmvn_pkg == Truthy(find_re(xmvn_regex))

\* the first package whose name ends with -javadoc; <<>> stands for None
RECURSIVE JavadocSubFrom(_)
JavadocSubFrom(i) ==
    IF i > Len(packages) THEN <<>>
    ELSE IF EndsWith(packages[i], "-javadoc") THEN packages[i]
    ELSE JavadocSubFrom(i + 1)

\* mutant: the last package whose name ends with -javadoc
get_javadoc_sub_last ==
    LET pkgs == SelectSeq(packages, LAMBDA p : EndsWith(p, "-javadoc"))
    IN  IF pkgs = <<>> THEN <<>> ELSE pkgs[Len(pkgs)]

get_javadoc_sub == JavadocSubFrom(1)

----------------------------------------------------------------------------
(* The checks' run / run_on_applicable: the set_passed calls of the path
   taken, in order *)

TxtNoJavadocOptional ==
    "No javadoc subpackage present. Note: Javadocs are optional for Fedora versions >= 21"
TxtNoHtml == "No javadoc html files found in %s"
TxtNoJavadoc == "No javadoc subpackage present"
TxtVersioned == "Found deprecated versioned javadoc paths"
TxtNoUnversioned == "No /usr/share/javadoc/%s found"
TxtMavenNoRequire ==
    "Maven packages do not need to (Build)Require jpackage-utils. It is pulled in by maven-local"
TxtManyJavadoc == "More than one javadoc package"
TxtGenerated ==
    "javapackages-tools requires are automatically generated by the buildsystem"
TxtNoDepmap ==
    "Old style Maven package found, no add_maven_depmap calls found but POM files present"
TxtSomeDepmap ==
    "Some add_maven_depmap calls found. Please check if they are correct or update to latest guidelines"
TxtPostPostun == "jpackage-utils post/postun in ..."
TxtSkipped ==
    "Tests seem to be skipped. Verify there is a commment giving a reason for this"
TxtConvert ==
    "Convert the package to use %mvn_build instead of deprecated mvn-rpmbuild"
TxtNotNoarch == "%s subpackage is not noarch. Please verify manually"
TxtUpdate == "If possible update your package to latest guidelines"
TxtEmpty == ""

\* mutant: the return after the first set_passed is missing
CheckJavadoc_run_noreturn ==
    LET pkg == get_javadoc_sub
    IN  (IF pkg = <<>> THEN <<Call(FAIL, TxtNoJavadocOptional)>> ELSE <<>>)
        \o (IF pkg # <<>> /\ find_in(HtmlGlob, pkg) THEN <<Call(PASS, NoText)>>
            ELSE <<Call(FAIL, TxtNoHtml)>>)

CheckJavadoc_run ==
    LET pkg == get_javadoc_sub
    IN  IF pkg = <<>> THEN <<Call(FAIL, TxtNoJavadocOptional)>>
        ELSE IF find_in(HtmlGlob, pkg) THEN <<Call(PASS, NoText)>>
        ELSE <<Call(FAIL, TxtNoHtml)>>

\* mutant: the versioned path is not looked for
CheckJavadocdirName_run_unversioned ==
    LET pkg == get_javadoc_sub
    IN  IF pkg = <<>> THEN <<Call(FAIL, TxtNoJavadoc)>>
        ELSE IF find_all(name_pattern, pkg) = {}
        THEN <<Call(FAIL, TxtNoUnversioned)>>
        ELSE <<Call(PASS, NoText)>>

CheckJavadocdirName_run ==
    LET pkg == get_javadoc_sub
    IN  IF pkg = <<>> THEN <<Call(FAIL, TxtNoJavadoc)>>
        ELSE IF find_all(name_ver_pattern, pkg) # {}
        THEN <<Call(FAIL, TxtVersioned)>>
        ELSE IF find_all(name_pattern, pkg) = {}
        THEN <<Call(FAIL, TxtNoUnversioned)>>
        ELSE <<Call(PASS, NoText)>>

\* any(x in br for x in JAVAPACKAGES_BR for br in brs)
br_found ==
    \E k \in 1..Len(JAVAPACKAGES_BR) : \E i \in 1..Len(build_requires) :
        Contains(build_requires[i], JAVAPACKAGES_BR[k])

\* mutant: the requires tokens are looked for in the build-requires
r_found_in_brs ==
    \E k \in 1..Len(JAVAPACKAGES_R) : \E i \in 1..Len(build_requires) :
        Contains(build_requires[i], JAVAPACKAGES_R[k])

\* any(x in br for x in JAVAPACKAGES_R for br in requires)
r_found ==
    \E k \in 1..Len(JAVAPACKAGES_R) : \E i \in 1..Len(get_requires) :
        Contains(get_requires[i], JAVAPACKAGES_R[k])

\* mutant: a Maven package is judged on its build-requires alone
CheckJPackageRequires_run_bronly ==
    IF is_maven_pkg \/ is_xmvn_pkg
    THEN <<Call(BoolVerdict(~br_found), TxtMavenNoRequire)>>
    ELSE <<Call(BoolVerdict(br_found /\ r_found), NoText)>>

CheckJPackageRequires_run ==
    IF is_maven_pkg \/ is_xmvn_pkg
    THEN <<Call(BoolVerdict(~(br_found \/ r_found)), TxtMavenNoRequire)>>
    ELSE <<Call(BoolVerdict(br_found /\ r_found), NoText)>>

\* [pkg for pkg in self.spec.packages if pkg.endswith('-javadoc')]
javadoc_pkgs == SelectSeq(packages, LAMBDA p : EndsWith(p, "-javadoc"))

\* x in reqs, for a list reqs of strings: x is one of the list's elements
InList(reqs, tok) == \E i \in 1..Len(reqs) : reqs[i] = <<tok>>

\* mutant: with several javadoc subpackages the first one is judged
CheckJavadocJPackageRequires_run_first ==
    LET pkgs == javadoc_pkgs
    IN  IF Len(pkgs) = 0 THEN <<Call(NA, NoText)>>
        ELSE LET reqs == requires[pkgs[1]]
                 ok == ~\E k \in 1..Len(JAVAPACKAGES_R) :
                           InList(reqs, JAVAPACKAGES_R[k])
             IN  <<Call(IF ok THEN PASS ELSE FAIL,
                        IF ~ok THEN TxtGenerated ELSE NoText)>>

CheckJavadocJPackageRequires_run ==
    LET pkgs == javadoc_pkgs
    IN  IF Len(pkgs) = 0 THEN <<Call(NA, NoText)>>
        ELSE IF Len(pkgs) > 1 THEN <<Call(PENDING, TxtManyJavadoc)>>
        ELSE LET reqs == requires[pkgs[1]]
                 ok == ~\E k \in 1..Len(JAVAPACKAGES_R) :
                           InList(reqs, JAVAPACKAGES_R[k])
             IN  <<Call(IF ok THEN PASS ELSE FAIL,
                        IF ~ok THEN TxtGenerated ELSE NoText)>>

CheckNoOldMavenDepmap_run ==
    <<Call(BoolVerdict(~Truthy(find_re(old_depmap_regex))), NoText)>>

\* mutant: the old-style macro is looked for before the XMvn macros
CheckAddMavenDepmap_run_swapped ==
    IF ~find(PomGlob) THEN <<Call(NA, NoText)>>
    ELSE IF Truthy(find_re(add_maven_depmap_regex))
    THEN <<Call(PENDING, TxtSomeDepmap)>>
    ELSE IF is_xmvn_pkg THEN <<Call(PASS, NoText)>>
    ELSE <<Call(FAIL, TxtNoDepmap)>>

CheckAddMavenDepmap_run ==
    IF ~find(PomGlob) THEN <<Call(NA, NoText)>>
    ELSE IF is_xmvn_pkg THEN <<Call(PASS, NoText)>>
    ELSE IF ~Truthy(find_re(add_maven_depmap_regex))
    THEN <<Call(FAIL, TxtNoDepmap)>>
    ELSE <<Call(PENDING, TxtSomeDepmap)>>

CheckUseMavenpomdirMacro_run ==
    IF ~find(PomGlob) THEN <<Call(NA, NoText)>>
    ELSE <<Call(BoolVerdict(~Truthy(find_re(mavenpomdir_regex))), NoText)>>

CheckUpdateDepmap_run ==
    IF ~find(PomGlob) THEN <<Call(NA, NoText)>>
    ELSE <<Call(BoolVerdict(~Truthy(find_re(update_depmap_regex))), NoText)>>

\* _find(what, where): what is part of some non-empty item of where
find_item(what, where) ==
    \E i \in 1..Len(where) : where[i] # <<>> /\ Contains(where[i], what)

bad_ones ==
    SelectSeq(packages,
              LAMBDA p : find_item("jpackage-utils",
                                   <<scriptlets[p].post, scriptlets[p].postun>>))

CheckNoRequiresPost_run ==
    IF ~find(PomGlob) THEN <<Call(NA, NoText)>>
    ELSE LET txt == IF bad_ones # <<>> THEN TxtPostPostun ELSE TxtEmpty
         IN  <<Call(IF txt # TxtEmpty THEN FAIL ELSE PASS, txt)>>

CheckTestSkip_run ==
    IF build_section # <<>> /\ (\/ Search(skip_regex, build_section)
                                \/ Search(xmvn_skip_regex, build_section))
    THEN <<Call(PENDING, TxtSkipped)>>
    ELSE <<Call(NA, NoText)>>

CheckMvnRpmbuild_run ==
    IF Truthy(find_re(mvn_rpmbuild)) THEN <<Call(FAIL, TxtConvert)>>
    ELSE <<Call(NA, NoText)>>

\* arch.lower()
Lower(s) == [i \in DOMAIN s |-> IF s[i] = "NoArch" THEN "noarch" ELSE s[i]]

\* the for ... else over spec.packages, from package i on
RECURSIVE NoArchFrom(_)
NoArchFrom(i) ==
    IF i > Len(packages) THEN <<Call(PASS, NoText)>>
    ELSE LET a == IF arch[packages[i]] # <<>> THEN Lower(arch[packages[i]])
                  ELSE arch[packages[i]]
         IN  IF a # <<"noarch">> THEN <<Call(PENDING, TxtNotNoarch)>>
             ELSE NoArchFrom(i + 1)

CheckNoArch_run == NoArchFrom(1)

\* mutant: the second test asks for the XMvn macros instead of maven-local
CheckNewStyleMaven_run_xmvn ==
    IF is_maven_pkg /\ is_xmvn_pkg THEN <<Call(PASS, NoText)>>
    ELSE IF is_xmvn_pkg THEN <<Call(FAIL, TxtUpdate)>>
    ELSE <<Call(NA, NoText)>>

CheckNewStyleMaven_run ==
    IF is_maven_pkg /\ is_xmvn_pkg THEN <<Call(PASS, NoText)>>
    ELSE IF is_maven_pkg THEN <<Call(FAIL, TxtUpdate)>>
    ELSE <<Call(NA, NoText)>>

----------------------------------------------------------------------------
(* Recording verdicts *)

\* the effect of a run's set_passed calls on check c
Record(c, cs) ==
    /\ calls' = [calls EXCEPT ![c] = @ + Len(cs)]
    /\ verdict' = [verdict EXCEPT ![c] =
                      IF cs = <<>> THEN @ ELSE cs[Len(cs)].result]
    /\ extra' = [extra EXCEPT ![c] =
                      IF cs = <<>> THEN @ ELSE cs[Len(cs)].text]

\* the host takes check c off its list and runs it
Next_check(c) ==
    /\ queue # <<>>
    /\ Head(queue) = c
    /\ queue' = Tail(queue)

SearchPreviousLine ==
    /\ Next_check(JavaCheckBase)
    /\ LET r == search_previous_line(section, TriggerEx, PivotEx, JudgeEx)
       IN  /\ ret' = r.ret
           /\ Record(JavaCheckBase, r.calls)
    /\ UNCHANGED inputs

\* the host runs check c: the calls cs of its run are recorded
RunCheck(c, cs) ==
    /\ Next_check(c)
    /\ Record(c, cs)
    /\ UNCHANGED <<inputs, ret>>

Run_CheckJavadoc == RunCheck(CheckJavadoc, CheckJavadoc_run)
Run_CheckJavadocdirName == RunCheck(CheckJavadocdirName, CheckJavadocdirName_run)
Run_CheckJPackageRequires ==
    RunCheck(CheckJPackageRequires, CheckJPackageRequires_run)
Run_CheckJavadocJPackageRequires ==
    RunCheck(CheckJavadocJPackageRequires, CheckJavadocJPackageRequires_run)
Run_CheckNoOldMavenDepmap ==
    RunCheck(CheckNoOldMavenDepmap, CheckNoOldMavenDepmap_run)
Run_CheckAddMavenDepmap == RunCheck(CheckAddMavenDepmap, CheckAddMavenDepmap_run)
Run_CheckUseMavenpomdirMacro ==
    RunCheck(CheckUseMavenpomdirMacro, CheckUseMavenpomdirMacro_run)
Run_CheckUpdateDepmap == RunCheck(CheckUpdateDepmap, CheckUpdateDepmap_run)
Run_CheckNoRequiresPost == RunCheck(CheckNoRequiresPost, CheckNoRequiresPost_run)
Run_CheckTestSkip == RunCheck(CheckTestSkip, CheckTestSkip_run)
Run_CheckMvnRpmbuild == RunCheck(CheckMvnRpmbuild, CheckMvnRpmbuild_run)
Run_CheckNoArch == RunCheck(CheckNoArch, CheckNoArch_run)
Run_CheckNewStyleMaven == RunCheck(CheckNewStyleMaven, CheckNewStyleMaven_run)

\* A check for which the plugin defines neither run nor run_on_applicable
\* (the manual checks, and CheckNotJavaApplicable, whose is_applicable is
\* False): no code of the plugin runs, and nothing is recorded.
NoPluginCode ==
    /\ queue # <<>>
    /\ Head(queue) \in ManualChecks \cup {CheckNotJavaApplicable}
    /\ queue' = Tail(queue)
    /\ UNCHANGED <<inputs, verdict, extra, calls, ret>>

----------------------------------------------------------------------------
(* Inputs *)

MainPkg == <<"foo">>
JavadocPkg == <<"foo", "-javadoc">>
ApiJavadocPkg == <<"foo", "-api", "-javadoc">>
JavadocDevelPkg == <<"foo", "-javadoc", "-devel">>
SubPkgNames == {JavadocPkg, ApiJavadocPkg, JavadocDevelPkg}
PkgNames == {MainPkg} \cup SubPkgNames

\* the main package followed by at most n distinct subpackages
PackageLists(n) ==
    {<<MainPkg>> \o q : q \in {r \in SeqUpTo(SubPkgNames, n) :
                                  \A i, j \in 1..Len(r) : i # j => r[i] # r[j]}}

Declared(pkgs, p) == \E i \in 1..Len(pkgs) : pkgs[i] = p

SectionLines ==
    { <<"#", " ", "reason">>,
      <<"mvn-rpmbuild", " ", "-Dmaven.test.skip">>,
      <<"mvn-rpmbuild">>,
      <<"x", " ", "-Dmaven.test.skip">>,
      <<" ">>,
      <<"x">> }

MavenLines ==
    { <<"%mvn_build">>,
      <<"#", " ", "%mvn_build">>,
      <<" ", "%mvn_install">>,
      <<"mvn-rpmbuild", " ", "install">>,
      <<"#", " ", "mvn-rpmbuild", " ", "install">>,
      <<"%add_maven_depmap">> }

XmvnLines == { <<"%mvn_build">>, <<"x">> }

OtherLines ==
    { <<" ", "%add_to_maven_depmap", " ", "x">>,
      <<"%update_maven_depmap", " ">>,
      <<"#", " ", "%update_maven_depmap">>,
      <<"install", " ", "%{_datadir}/maven2/poms">> }

BuildRequireChoices ==
    { <<"maven-local">>, <<"javapackages-local">>, <<"junit">> }

MavenBuildRequireChoices == { <<"maven-local">>, <<"junit">> }

RequireChoices == { <<"jpackage-utils">>, <<"gradle-local">> }

JavadocRequireChoices ==
    { <<"jpackage-utils">>, <<"javapackages-tools", " ", ">=", "5">>,
      <<"java-headless">> }

PomFile == <<"/usr/share/maven-poms/", "foo", ".pom">>

JavadocPaths ==
    { <<"/usr/share/javadoc/", "foo", "/", "index", ".html">>,
      <<"/usr/share/javadoc/", "foo", "/", "package-list">>,
      <<"/usr/share/javadoc/", "foo", "-", "1", "/", "index", ".html">>,
      <<"/usr/share/javadoc/", "foo", "-", "1">> }

ScriptletChoices == { <<>>, <<"x">>, <<"x", " ", "jpackage-utils">> }

ArchChoices == { <<>>, <<"noarch">>, <<"NoArch">>, <<"x86_64">> }

BuildSectionChoices ==
    { <<>>,
      <<"mvn-rpmbuild", " ", "install">>,
      <<"mvn-rpmbuild", NL, "-Dmaven.test.skip">>,
      <<"mvn-build", " ", "x", " ", "--skip-tests">> }

NoScriptlets == [post |-> <<>>, postun |-> <<>>]

InitState ==
    /\ verdict = [c \in AllChecks |-> UNSET]
    /\ extra = [c \in AllChecks |-> NoText]
    /\ calls = [c \in AllChecks |-> 0]
    /\ ret = NOTRUN

\* _search_previous_line on any section
InputsSearch ==
    /\ lines = <<>>
    /\ build_requires = <<>>
    /\ requires = [p \in PkgNames |-> <<>>]
    /\ packages = <<MainPkg>>
    /\ files = [p \in PkgNames |-> {}]
    /\ scriptlets = [p \in PkgNames |-> NoScriptlets]
    /\ arch = [p \in PkgNames |-> <<"noarch">>]
    /\ build_section = <<>>
    /\ section \in SeqUpTo(SectionLines, MaxSection)

\* a spec text, build-requires and the presence of a POM file
InputsMaven ==
    /\ lines \in SeqUpTo(MavenLines, MaxSpecLines)
    /\ build_requires \in SeqUpTo(MavenBuildRequireChoices, MaxReqs)
    /\ requires = [p \in PkgNames |-> <<>>]
    /\ packages = <<MainPkg>>
    /\ \E fs \in {{}, {PomFile}} :
           files = [p \in PkgNames |-> IF p = MainPkg THEN fs ELSE {}]
    /\ scriptlets = [p \in PkgNames |-> NoScriptlets]
    /\ arch = [p \in PkgNames |-> <<"noarch">>]
    /\ build_section = <<>>
    /\ section = <<>>

\* build-requires and requires of a package built with or without XMvn
InputsRequires ==
    /\ lines \in SeqUpTo(XmvnLines, MaxSpecLines)
    /\ build_requires \in SeqUpTo(BuildRequireChoices, MaxReqs)
    /\ \E rs \in SeqUpTo(RequireChoices, MaxReqs) :
           requires = [p \in PkgNames |-> IF p = MainPkg THEN rs ELSE <<>>]
    /\ packages = <<MainPkg>>
    /\ files = [p \in PkgNames |-> {}]
    /\ scriptlets = [p \in PkgNames |-> NoScriptlets]
    /\ arch = [p \in PkgNames |-> <<"noarch">>]
    /\ build_section = <<>>
    /\ section = <<>>

\* subpackages and the files of the javadoc subpackages
InputsJavadocFiles ==
    /\ lines = <<>>
    /\ build_requires = <<>>
    /\ requires = [p \in PkgNames |-> <<>>]
    /\ packages \in PackageLists(MaxSubpackages)
    /\ \E f1 \in IF Declared(packages, JavadocPkg)
                  THEN SUBSET JavadocPaths ELSE {{}} :
       \E f2 \in IF Declared(packages, ApiJavadocPkg)
                  THEN SUBSET JavadocPaths ELSE {{}} :
           files = [p \in PkgNames |->
                      IF p = JavadocPkg THEN f1
                      ELSE IF p = ApiJavadocPkg THEN f2 ELSE {}]
    /\ scriptlets = [p \in PkgNames |-> NoScriptlets]
    /\ arch = [p \in PkgNames |-> <<"noarch">>]
    /\ build_section = <<>>
    /\ section = <<>>

\* subpackages and the requires of the javadoc subpackages
InputsJavadocRequires ==
    /\ lines = <<>>
    /\ build_requires = <<>>
    /\ packages \in PackageLists(MaxSubpackages)
    /\ \E r1 \in IF Declared(packages, JavadocPkg)
                  THEN SeqUpTo(JavadocRequireChoices, MaxReqs) ELSE {<<>>} :
       \E r2 \in IF Declared(packages, ApiJavadocPkg)
                  THEN SeqUpTo(JavadocRequireChoices, MaxReqs) ELSE {<<>>} :
           requires = [p \in PkgNames |->
                         IF p = JavadocPkg THEN r1
                         ELSE IF p = ApiJavadocPkg THEN r2 ELSE <<>>]
    /\ files = [p \in PkgNames |-> {}]
    /\ scriptlets = [p \in PkgNames |-> NoScriptlets]
    /\ arch = [p \in PkgNames |-> <<"noarch">>]
    /\ build_section = <<>>
    /\ section = <<>>

\* a spec text using the deprecated macros, and the presence of a POM file
InputsMacros ==
    /\ lines \in SeqUpTo(OtherLines, MaxSpecLines)
    /\ build_requires = <<>>
    /\ requires = [p \in PkgNames |-> <<>>]
    /\ packages = <<MainPkg>>
    /\ \E fs \in {{}, {PomFile}} :
           files = [p \in PkgNames |-> IF p = MainPkg THEN fs ELSE {}]
    /\ scriptlets = [p \in PkgNames |-> NoScriptlets]
    /\ arch = [p \in PkgNames |-> <<"noarch">>]
    /\ build_section = <<>>
    /\ section = <<>>

\* scriptlets, architecture tags and the build section
InputsScripts ==
    /\ lines = <<>>
    /\ build_requires = <<>>
    /\ requires = [p \in PkgNames |-> <<>>]
    /\ packages \in {<<MainPkg>>, <<MainPkg, JavadocPkg>>}
    /\ \E fs \in {{}, {PomFile}} :
           files = [p \in PkgNames |-> IF p = MainPkg THEN fs ELSE {}]
    /\ \E po \in ScriptletChoices :
           scriptlets = [p \in PkgNames |->
                           IF p = packages[Len(packages)]
                           THEN [post |-> <<>>, postun |-> po]
                           ELSE NoScriptlets]
    /\ \E a \in ArchChoices :
           arch = [p \in PkgNames |->
                     IF p = packages[Len(packages)] THEN a ELSE <<"noarch">>]
    /\ build_section \in BuildSectionChoices
    /\ section = <<>>

----------------------------------------------------------------------------
(* Specifications *)

\* _search_previous_line applied to a section
InitSearch == InitState /\ InputsSearch /\ queue = <<JavaCheckBase>>
NextSearch == SearchPreviousLine
SpecSearch == InitSearch /\ [][NextSearch]_vars

\* the checks that look at Maven/XMvn packaging
InitMaven ==
    /\ InitState
    /\ InputsMaven \/ InputsRequires
    /\ queue = <<CheckJPackageRequires, CheckAddMavenDepmap, CheckMvnRpmbuild,
                 CheckNewStyleMaven>>
NextMaven ==
    \/ Run_CheckJPackageRequires
    \/ Run_CheckAddMavenDepmap
    \/ Run_CheckMvnRpmbuild
    \/ Run_CheckNewStyleMaven
SpecMaven == InitMaven /\ [][NextMaven]_vars

\* the checks that look at the javadoc subpackage
InitJavadoc ==
    /\ InitState
    /\ InputsJavadocFiles \/ InputsJavadocRequires
    /\ queue = <<CheckJavadoc, CheckJavadocdirName, CheckJavadocJPackageRequires>>
NextJavadoc ==
    \/ Run_CheckJavadoc
    \/ Run_CheckJavadocdirName
    \/ Run_CheckJavadocJPackageRequires
SpecJavadoc == InitJavadoc /\ [][NextJavadoc]_vars

\* a review: the host runs every check of the plugin, once, in order
Init ==
    /\ InitState
    /\ \/ InputsMaven
       \/ InputsRequires
       \/ InputsJavadocFiles
       \/ InputsJavadocRequires
       \/ InputsMacros
       \/ InputsScripts
    /\ queue = PluginChecks
Next ==
    \/ NoPluginCode
    \/ Run_CheckJavadoc
    \/ Run_CheckJavadocdirName
    \/ Run_CheckJPackageRequires
    \/ Run_CheckJavadocJPackageRequires
    \/ Run_CheckNoOldMavenDepmap
    \/ Run_CheckAddMavenDepmap
    \/ Run_CheckUseMavenpomdirMacro
    \/ Run_CheckUpdateDepmap
    \/ Run_CheckNoRequiresPost
    \/ Run_CheckTestSkip
    \/ Run_CheckMvnRpmbuild
    \/ Run_CheckNoArch
    \/ Run_CheckNewStyleMaven
Spec == Init /\ [][Next]_vars

----------------------------------------------------------------------------
(* The claims *)

\* the host has run check c
Ran(c) == \A i \in 1..Len(queue) : queue[i] # c

Searched == ret # NOTRUN

\* C1 (as claimed): _search_previous_line returns False only with the check
\* marked FAIL, returns None only if it found no pivot line with the trigger
\* on it or after it, and on a section that is one line matching both the
\* trigger and the pivot it marks the check FAIL and returns False.
C1_SearchContract ==
    Searched =>
        /\ ret = False => verdict[JavaCheckBase] = FAIL
        /\ ret = None =>
              ~\E i \in 1..Len(section) : \E j \in i..Len(section) :
                  Search(PivotEx, section[i]) /\ Search(TriggerEx, section[j])
        /\ (/\ Len(section) = 1
            /\ Search(TriggerEx, section[1])
            /\ Search(PivotEx, section[1]))
              => ret = False /\ verdict[JavaCheckBase] = FAIL

\* some build-requirement contains maven-local
HasMavenLocal ==
    \E i \in 1..Len(build_requires) :
        \E k \in 1..Len(build_requires[i]) : build_requires[i][k] = "maven-local"

\* some line of the spec matches ([^#]*%mvn_build)|([^#]*%mvn_install)
MatchesXmvn == \E i \in 1..Len(lines) : Search(xmvn_regex, lines[i])

\* C2: CheckNewStyleMaven records PASS when some build-requirement contains
\* maven-local and the spec matches the XMvn pattern, FAIL when some
\* build-requirement contains maven-local and the spec does not match it, and
\* NOT-APPLICABLE when no build-requirement contains maven-local.
C2_NewStyleVerdict ==
    Ran(CheckNewStyleMaven) =>
        /\ HasMavenLocal /\ MatchesXmvn => verdict[CheckNewStyleMaven] = PASS
        /\ HasMavenLocal /\ ~MatchesXmvn => verdict[CheckNewStyleMaven] = FAIL
        /\ ~HasMavenLocal => verdict[CheckNewStyleMaven] = NA

\* C2 witness: no maven-local, the XMvn pattern matches, NOT-APPLICABLE
C2_Witness ==
    /\ Ran(CheckNewStyleMaven)
    /\ ~HasMavenLocal
    /\ MatchesXmvn
    /\ verdict[CheckNewStyleMaven] = NA

BuildTokens ==
    {"javapackages-tools", "jpackage-utils", "javapackages-local", "gradle-local"}
RuntimeTokens == {"javapackages-tools", "jpackage-utils"}

\* some build-requirement contains a packaging-tools token
BuildRequiresToken ==
    \E i \in 1..Len(build_requires) :
        \E k \in 1..Len(build_requires[i]) : build_requires[i][k] \in BuildTokens

\* some requirement of the main package contains javapackages-tools or
\* jpackage-utils
RequiresToken ==
    \E i \in 1..Len(requires[MainPkg]) :
        \E k \in 1..Len(requires[MainPkg][i]) :
            requires[MainPkg][i][k] \in RuntimeTokens

\* C3 (as claimed): for a Maven or XMvn package CheckJPackageRequires records
\* FAIL if some build-requirement contains a packaging-tools token and PASS
\* once none does.
C3_Original ==
    Ran(CheckJPackageRequires) /\ (HasMavenLocal \/ MatchesXmvn) =>
        verdict[CheckJPackageRequires] =
            IF BuildRequiresToken THEN FAIL ELSE PASS

\* C3 (amended): for a Maven or XMvn package CheckJPackageRequires records
\* FAIL if some build-requirement contains a packaging-tools token or some
\* requirement contains javapackages-tools or jpackage-utils, and PASS once
\* neither does.
C3_MavenRequires ==
    Ran(CheckJPackageRequires) /\ (HasMavenLocal \/ MatchesXmvn) =>
        verdict[CheckJPackageRequires] =
            IF BuildRequiresToken \/ RequiresToken THEN FAIL ELSE PASS

\* C3 witness: a Maven package without the token in its build-requires but
\* with it in its requires fails
C3_Witness ==
    /\ Ran(CheckJPackageRequires)
    /\ HasMavenLocal
    /\ ~BuildRequiresToken
    /\ RequiresToken
    /\ verdict[CheckJPackageRequires] = FAIL

\* C4 (as claimed): for a package none of whose build-requirements contains
\* maven-local, CheckJPackageRequires records FAIL when the token is in
\* neither build-requires nor requires and PASS when it is in both.
C4_Original ==
    Ran(CheckJPackageRequires) /\ ~HasMavenLocal =>
        /\ ~BuildRequiresToken /\ ~RequiresToken
              => verdict[CheckJPackageRequires] = FAIL
        /\ BuildRequiresToken /\ RequiresToken
              => verdict[CheckJPackageRequires] = PASS

\* C4 (amended): the same for a package that is neither Maven nor XMvn (no
\* build-requirement contains maven-local and the spec does not match the
\* %mvn_build/%mvn_install pattern).
C4_NonMavenRequires ==
    Ran(CheckJPackageRequires) /\ ~HasMavenLocal /\ ~MatchesXmvn =>
        /\ ~BuildRequiresToken /\ ~RequiresToken
              => verdict[CheckJPackageRequires] = FAIL
        /\ BuildRequiresToken /\ RequiresToken
              => verdict[CheckJPackageRequires] = PASS

\* C4 witness: neither Maven nor XMvn, the token in both, PASS
C4_Witness ==
    /\ Ran(CheckJPackageRequires)
    /\ ~HasMavenLocal
    /\ ~MatchesXmvn
    /\ BuildRequiresToken
    /\ RequiresToken
    /\ verdict[CheckJPackageRequires] = PASS

\* the indices of the declared packages whose name ends with -javadoc
JavadocIndices ==
    {i \in 1..Len(packages) : packages[i][Len(packages[i])] = "-javadoc"}

\* the first declared javadoc subpackage
FirstJavadoc ==
    packages[CHOOSE i \in JavadocIndices : \A j \in JavadocIndices : i <= j]

HasPrefix(path, prefix) ==
    Len(path) >= Len(prefix) /\ SubSeq(path, 1, Len(prefix)) = prefix

\* a file of pkg matches /usr/share/javadoc/<name>/*
HasUnversioned(pkg) ==
    \E f \in files[pkg] : HasPrefix(f, <<"/usr/share/javadoc/", "foo", "/">>)

\* a file of pkg matches /usr/share/javadoc/<name>-<version>/*
HasVersioned(pkg) ==
    \E f \in files[pkg] :
        HasPrefix(f, <<"/usr/share/javadoc/", "foo", "-", "1", "/">>)

\* C5: CheckJavadocdirName records PASS if and only if a javadoc subpackage
\* exists, has a file matching the unversioned path and has no file matching
\* the versioned path; in every other case it records FAIL.
C5_JavadocdirName ==
    Ran(CheckJavadocdirName) =>
        verdict[CheckJavadocdirName] =
            IF /\ JavadocIndices # {}
               /\ HasUnversioned(FirstJavadoc)
               /\ ~HasVersioned(FirstJavadoc)
            THEN PASS ELSE FAIL

\* C5 witness: both the unversioned and the versioned path are present, FAIL
C5_Witness ==
    /\ Ran(CheckJavadocdirName)
    /\ JavadocIndices # {}
    /\ HasUnversioned(FirstJavadoc)
    /\ HasVersioned(FirstJavadoc)
    /\ verdict[CheckJavadocdirName] = FAIL

\* pkg contains an HTML file
HasHtml(pkg) == \E f \in files[pkg] : f[Len(f)] = ".html"

\* C6: CheckJavadoc records FAIL, with the text noting that javadocs are
\* optional, when no declared subpackage name ends with -javadoc; otherwise
\* PASS if the first declared javadoc subpackage contains an HTML file and
\* FAIL if it does not.
C6_Javadoc ==
    Ran(CheckJavadoc) =>
        IF JavadocIndices = {}
        THEN /\ verdict[CheckJavadoc] = FAIL
             /\ extra[CheckJavadoc] = TxtNoJavadocOptional
        ELSE verdict[CheckJavadoc] =
                 IF HasHtml(FirstJavadoc) THEN PASS ELSE FAIL

\* C6 witness: the first javadoc subpackage has no HTML file, a later one
\* has, FAIL
C6_Witness ==
    /\ Ran(CheckJavadoc)
    /\ Cardinality(JavadocIndices) > 1
    /\ ~HasHtml(FirstJavadoc)
    /\ \E i \in JavadocIndices : HasHtml(packages[i])
    /\ verdict[CheckJavadoc] = FAIL

\* a built package contains a *.pom file
HasPom ==
    \E i \in 1..Len(packages) :
        \E f \in files[packages[i]] : f[Len(f)] = ".pom"

\* some line of the spec matches [^#]*%add_maven_depmap
MatchesAddDepmap ==
    \E i \in 1..Len(lines) : Search(add_maven_depmap_regex, lines[i])

\* C7: CheckAddMavenDepmap records NOT-APPLICABLE if no built package has a
\* *.pom file; otherwise PASS if the package is an XMvn build; otherwise FAIL
\* if the spec has no %add_maven_depmap; otherwise PENDING.
C7_AddMavenDepmap ==
    Ran(CheckAddMavenDepmap) =>
        verdict[CheckAddMavenDepmap] =
            IF ~HasPom THEN NA
            ELSE IF MatchesXmvn THEN PASS
            ELSE IF ~MatchesAddDepmap THEN FAIL
            ELSE PENDING

\* C7 witness: POM files, an XMvn build with %add_maven_depmap as well, PASS
C7_Witness ==
    /\ Ran(CheckAddMavenDepmap)
    /\ HasPom
    /\ MatchesXmvn
    /\ MatchesAddDepmap
    /\ verdict[CheckAddMavenDepmap] = PASS

\* pkg's requires list javapackages-tools or jpackage-utils
ListsToken(pkg) ==
    \E i \in 1..Len(requires[pkg]) : \E t \in RuntimeTokens :
        requires[pkg][i] = <<t>>

\* C8: CheckJavadocJPackageRequires records NOT-APPLICABLE if no declared
\* subpackage name ends with -javadoc, PENDING if more than one does, and with
\* exactly one FAIL if javapackages-tools or jpackage-utils is among that
\* subpackage's requires and PASS otherwise.
C8_JavadocRequires ==
    Ran(CheckJavadocJPackageRequires) =>
        verdict[CheckJavadocJPackageRequires] =
            IF JavadocIndices = {} THEN NA
            ELSE IF Cardinality(JavadocIndices) > 1 THEN PENDING
            ELSE IF ListsToken(FirstJavadoc) THEN FAIL
            ELSE PASS

\* C8 witness: two javadoc subpackages, the first of which requires the
\* token, PENDING
C8_Witness ==
    /\ Ran(CheckJavadocJPackageRequires)
    /\ Cardinality(JavadocIndices) > 1
    /\ ListsToken(FirstJavadoc)
    /\ verdict[CheckJavadocJPackageRequires] = PENDING

\* mvn-rpmbuild occurs on the line with no # before it
Uncommented(line) ==
    \E i \in 1..Len(line) :
        line[i] = "mvn-rpmbuild" /\ \A j \in 1..(i - 1) : line[j] # "#"

\* C9 (as claimed): CheckMvnRpmbuild records FAIL if some line of the spec
\* has mvn-rpmbuild outside a comment and NOT-APPLICABLE otherwise, so a spec
\* where mvn-rpmbuild only follows a # yields NOT-APPLICABLE.
C9_CommentsExcluded ==
    Ran(CheckMvnRpmbuild) =>
        verdict[CheckMvnRpmbuild] =
            IF \E i \in 1..Len(lines) : Uncommented(lines[i]) THEN FAIL ELSE NA

\* C10: no check has its verdict set more than once; a check has a verdict
\* exactly if set_passed was called for it; every automatic check the host
\* has run had its verdict set exactly once; the manual checks have no
\* verdict set.
C10_SetExactlyOnce ==
    \A i \in 1..Len(PluginChecks) :
        LET c == PluginChecks[i]
        IN  /\ calls[c] <= 1
            /\ calls[c] = 0 <=> verdict[c] = UNSET
            /\ Ran(c) /\ c \notin {CheckBundledJars, JarFilename,
                                   CheckPomInstalled, CheckUpstremBuildMethod,
                                   CheckNotJavaApplicable}
                  => calls[c] = 1
            /\ c \in {CheckBundledJars, JarFilename, CheckPomInstalled,
                      CheckUpstremBuildMethod}
                  => calls[c] = 0

\* C10 witness: every check has been run, the early return of CheckJavadoc
\* and the break of CheckNoArch were taken, and the manual checks were passed
\* over
C10_Witness ==
    /\ queue = <<>>
    /\ extra[CheckJavadoc] = TxtNoJavadocOptional
    /\ verdict[CheckNoArch] = PENDING
    /\ verdict[CheckBundledJars] = UNSET
    /\ \A i \in 1..Len(PluginChecks) : calls[PluginChecks[i]] <= 1

====
